---- MODULE Spec2Model ----
(***************************************************************************)
(* State-machine model of the Anchor program programs/voting/src/lib.rs:   *)
(* the Poll and Voter accounts, the instructions init_poll and vote, and   *)
(* the cluster clock the vote handler reads.                               *)
(*                                                                         *)
(* An instruction is processed as the Solana runtime processes it: the     *)
(* generated account validation of the #[derive(Accounts)] struct runs     *)
(* first (init constraints, then has_one), then the handler body, and the  *)
(* account writes of the whole instruction are kept only when it returns   *)
(* Ok.  Strings are sequences of characters, so len() is Len.  A program   *)
(* derived address is the tuple of its seeds (the hash is taken to be      *)
(* collision free); the bump fields, which are a function of the seeds,    *)
(* are left out of the records.  Callers are signers that can pay the rent *)
(* of the account they create.                                             *)
(***************************************************************************)
EXTENDS Integers, Sequences, FiniteSets, TLC

\* ------------------------------------------------------------ bounds
\* The clock is capped at MaxTime.
MaxTime == 3
\* Capacity of one u64 vote counter (u64::MAX), scaled down so that the
\* checked_add of vote can be driven to overflow by the wallets below.
MaxTally == 2

\* ------------------------------------------------------------ constants
\* Longest seed find_program_address accepts, in bytes (seeds of InitPoll).
MAX_SEED_LEN == 32

\* ------------------------------------------------------------ inputs
Pubkeys == {"k1", "k2", "k3"}
Authorities == {"k1", "k2"}
Wallets == Pubkeys
DefaultPubkey == "0"

\* Strings by their byte length (ASCII, one byte per character).
S0  == ""
S1  == "A"
S32 == "Which language is the best one??"
S33 == "Which language is the best one???"
S64 == "Which programming language should we adopt for the next project?"
S65 == "Which programming language should we adopt for the next projects?"
Titles == {S32, S33, S64, S65}
CandidateLists ==
    { <<S1>>,                                  \* 1 candidate
      <<S1, S32>>,                             \* 2 candidates, names of 1 and 32 bytes
      <<S1, S1, S1, S1, S1, S1, S1, S32>>,     \* 8 candidates
      <<S1, S1, S1, S1, S1, S1, S1, S1, S1>>,  \* 9 candidates
      <<S1, S0>>,                              \* an empty name
      <<S33, S1>>,                             \* a name of 33 bytes
      <<S33, S0>> }                            \* a long name before an empty one
\* start_ts and end_ts of an init_poll: 1 < 2, 2 = 2, 2 > 1.
Schedules == {<<1, 2>>, <<2, 2>>, <<2, 1>>}
CandidateIdxs == {0, 1, 8}

\* ------------------------------------------------------------ addresses
\* seeds = [b"poll", authority.key, title.as_bytes()]
PollSeedsOk(title) == Len(title) <= MAX_SEED_LEN
PollPda(authority, title) == <<"poll", authority, title>>
\* seeds = [b"voter", poll.key(), wallet.key()]
\* Mutant of VoterPda: the poll is not a seed of the Voter address.
VoterPda_WalletOnly(poll, wallet) == <<"voter", "any", wallet>>

VoterPda(poll, wallet) == <<"voter", poll, wallet>>

PollAddrs == {PollPda(a, t) : a \in Authorities, t \in {x \in Titles : PollSeedsOk(x)}}
VoterAddrs == {VoterPda(p, w) : p \in PollAddrs, w \in Wallets}

VARIABLES
    polls,    \* the Poll accounts of the program, by address
    voters,   \* the Voter accounts of the program, by address
    now,      \* Clock::get()?.unix_timestamp
    last,     \* the last instruction processed and the Result it returned
    castBy,   \* history: successful vote instructions per (poll, wallet)
    castFor,  \* history: successful vote instructions per (poll, candidate_idx)
    given     \* history: the arguments of the init_poll that created each poll

vars == <<polls, voters, now, last, castBy, castFor, given>>

\* ------------------------------------------------------------ init_poll
\* The require! checks of init_poll, in order.
CandidateNamesCheck(candidates) ==
    LET bad == {i \in 1..Len(candidates) :
                    Len(candidates[i]) = 0 \/ Len(candidates[i]) > 32}
    IN  IF bad = {} THEN "Ok"
        ELSE LET i == CHOOSE j \in bad : \A k \in bad : j <= k
             IN  IF Len(candidates[i]) = 0 THEN "EmptyCandidateName"
                 ELSE "CandidateNameTooLong"

\* Mutant of InitPollChecks: one candidate is enough and nine are allowed.
InitPollChecks_AnyCount(title, candidates, start_ts, end_ts) ==
    IF ~(Len(candidates) >= 1) THEN "NotEnoughCandidates"
    ELSE IF ~(Len(candidates) <= 9) THEN "TooManyCandidates"
    ELSE IF ~(Len(title) <= 64) THEN "TitleTooLong"
    ELSE IF ~(start_ts < end_ts) THEN "BadSchedule"
    ELSE CandidateNamesCheck(candidates)

InitPollChecks(title, candidates, start_ts, end_ts) ==
    IF ~(Len(candidates) >= 2) THEN "NotEnoughCandidates"
    ELSE IF ~(Len(candidates) <= 8) THEN "TooManyCandidates"
    ELSE IF ~(Len(title) <= 64) THEN "TitleTooLong"
    ELSE IF ~(start_ts < end_ts) THEN "BadSchedule"
    ELSE CandidateNamesCheck(candidates)

\* Mutant of InitPollAccounts: poll is init_if_needed, an existing Poll
\* account is accepted and written again.
InitPollAccounts_InitIfNeeded(P, authority, title) ==
    IF ~PollSeedsOk(title) THEN "MaxSeedLengthExceeded"
    ELSE "Ok"

\* The account validation of InitPoll: the poll address is derived from the
\* seeds and the account is created there, which fails when it exists.
InitPollAccounts(P, authority, title) ==
    IF ~PollSeedsOk(title) THEN "MaxSeedLengthExceeded"
    ELSE IF PollPda(authority, title) \in DOMAIN P THEN "AccountAlreadyInUse"
    ELSE "Ok"

\* Mutant of NewPoll: the two timestamps are stored in each other's field.
NewPoll_SwappedTs(authority, title, candidates, start_ts, end_ts) ==
    [ authority  |-> authority,
      title      |-> title,
      candidates |-> candidates,
      votes      |-> [i \in 1..Len(candidates) |-> 0],
      start_ts   |-> end_ts,
      end_ts     |-> start_ts ]

\* The Poll the handler writes.
NewPoll(authority, title, candidates, start_ts, end_ts) ==
    [ authority  |-> authority,
      title      |-> title,
      candidates |-> candidates,
      votes      |-> [i \in 1..Len(candidates) |-> 0],
      start_ts   |-> start_ts,
      end_ts     |-> end_ts ]

\* One init_poll instruction: the result and the accounts after it.
ProcessInitPoll(P, authority, title, candidates, start_ts, end_ts) ==
    LET acc == InitPollAccounts(P, authority, title)
        chk == InitPollChecks(title, candidates, start_ts, end_ts)
        res == IF acc # "Ok" THEN acc ELSE chk
    IN  [ result |-> res,
          polls  |-> IF res = "Ok"
                     THEN [a \in DOMAIN P \cup {PollPda(authority, title)} |->
                             IF a = PollPda(authority, title)
                             THEN NewPoll(authority, title, candidates, start_ts, end_ts)
                             ELSE P[a]]
                     ELSE P ]

\* ------------------------------------------------------------ vote
\* Mutant of VoteAccounts: voter is init_if_needed, an existing Voter account
\* is accepted.
VoteAccounts_InitIfNeeded(P, V, p, authority, wallet) ==
    IF p \notin DOMAIN P THEN "AccountNotInitialized"
    ELSE IF P[p].authority # authority THEN "ConstraintHasOne"
    ELSE "Ok"

\* Mutant of VoteAccounts: the poll account carries no has_one = authority.
VoteAccounts_NoHasOne(P, V, p, authority, wallet) ==
    IF p \notin DOMAIN P THEN "AccountNotInitialized"
    ELSE IF VoterPda(p, wallet) \in DOMAIN V THEN "AccountAlreadyInUse"
    ELSE "Ok"

\* The account validation of Vote: poll is loaded, voter is created at its
\* address (init), then has_one = authority is checked on poll.
VoteAccounts(P, V, p, authority, wallet) ==
    IF p \notin DOMAIN P THEN "AccountNotInitialized"
    ELSE IF VoterPda(p, wallet) \in DOMAIN V THEN "AccountAlreadyInUse"
    ELSE IF P[p].authority # authority THEN "ConstraintHasOne"
    ELSE "Ok"

\* The Voter account as init leaves it, before the handler runs.
ZeroVoter == [poll |-> DefaultPubkey, wallet |-> DefaultPubkey, has_voted |-> FALSE]

\* Mutant of CheckedAdd1: wrapping_add, the counter wraps to 0.
CheckedAdd1_Wrapping(v) ==
    [some |-> TRUE, val |-> (v + 1) % (MaxTally + 1)]

\* Mutant of CheckedAdd1: the sum is computed from a stale counter read before
\* an earlier vote was written (a lost update).
CheckedAdd1_LostUpdate(v) ==
    [some |-> TRUE, val |-> 1]

\* votes[idx].checked_add(1): the sum, or None.
CheckedAdd1(v) ==
    IF v + 1 > MaxTally THEN [some |-> FALSE, val |-> 0]
    ELSE [some |-> TRUE, val |-> v + 1]

\* Mutant of VoteBody: the Voter account is left as init created it and only
\* the counter is written.
VoteBody_VoterNotMarked(poll, voter, p, wallet, candidate_idx) ==
    IF ~(candidate_idx < Len(poll.candidates)) THEN
        [result |-> "BadCandidate", poll |-> poll, voter |-> voter]
    ELSE
        LET sum == CheckedAdd1(poll.votes[candidate_idx + 1])
        IN  IF ~sum.some
            THEN [result |-> "Overflow", poll |-> poll, voter |-> voter]
            ELSE [result |-> "Ok",
                  poll   |-> [poll EXCEPT !.votes[candidate_idx + 1] = sum.val],
                  voter  |-> voter]

\* The handler body of vote once the window checks have passed.
VoteBody(poll, voter, p, wallet, candidate_idx) ==
    IF ~(candidate_idx < Len(poll.candidates)) THEN
        [result |-> "BadCandidate", poll |-> poll, voter |-> voter]
    ELSE
        LET marked == [poll |-> p, wallet |-> wallet, has_voted |-> TRUE]
            sum    == CheckedAdd1(poll.votes[candidate_idx + 1])
        IN  IF ~sum.some
            THEN [result |-> "Overflow", poll |-> poll, voter |-> marked]
            ELSE [result |-> "Ok",
                  poll   |-> [poll EXCEPT !.votes[candidate_idx + 1] = sum.val],
                  voter  |-> marked]

\* Mutant of VoteHandler: the start of the window is exclusive.
VoteHandler_StartExclusive(poll, voter, p, wallet, t, candidate_idx) ==
    IF ~(t > poll.start_ts) THEN
        [result |-> "TooEarly", poll |-> poll, voter |-> voter]
    ELSE IF ~(t <= poll.end_ts) THEN
        [result |-> "Closed", poll |-> poll, voter |-> voter]
    ELSE VoteBody(poll, voter, p, wallet, candidate_idx)

\* Mutant of VoteHandler: the end of the window is not checked.
VoteHandler_NoClose(poll, voter, p, wallet, t, candidate_idx) ==
    IF ~(t >= poll.start_ts) THEN
        [result |-> "TooEarly", poll |-> poll, voter |-> voter]
    ELSE VoteBody(poll, voter, p, wallet, candidate_idx)

\* Mutant of VoteHandler: the candidate index is validated before the window.
VoteHandler_IndexFirst(poll, voter, p, wallet, t, candidate_idx) ==
    IF ~(candidate_idx < Len(poll.candidates)) THEN
        [result |-> "BadCandidate", poll |-> poll, voter |-> voter]
    ELSE IF ~(t >= poll.start_ts) THEN
        [result |-> "TooEarly", poll |-> poll, voter |-> voter]
    ELSE IF ~(t <= poll.end_ts) THEN
        [result |-> "Closed", poll |-> poll, voter |-> voter]
    ELSE VoteBody(poll, voter, p, wallet, candidate_idx)

\* The handler body of vote on the loaded accounts: the result and the
\* accounts as the handler leaves them (poll, voter) when it returns.
VoteHandler(poll, voter, p, wallet, t, candidate_idx) ==
    IF ~(t >= poll.start_ts) THEN
        [result |-> "TooEarly", poll |-> poll, voter |-> voter]
    ELSE IF ~(t <= poll.end_ts) THEN
        [result |-> "Closed", poll |-> poll, voter |-> voter]
    ELSE VoteBody(poll, voter, p, wallet, candidate_idx)

\* The accounts with the poll and voter of one vote written back.
WriteBack(P, V, p, wallet, h) ==
    [ polls  |-> [P EXCEPT ![p] = h.poll],
      voters |-> [a \in DOMAIN V \cup {VoterPda(p, wallet)} |->
                    IF a = VoterPda(p, wallet) THEN h.voter ELSE V[a]] ]

\* Mutant of ProcessVote: the writes of a failed handler are kept.
ProcessVote_NoRollback(P, V, t, p, authority, wallet, candidate_idx) ==
    LET acc == VoteAccounts(P, V, p, authority, wallet)
    IN  IF acc # "Ok" THEN [result |-> acc, polls |-> P, voters |-> V]
        ELSE
          LET h == VoteHandler(P[p], ZeroVoter, p, wallet, t, candidate_idx)
              w == WriteBack(P, V, p, wallet, h)
          IN  [result |-> h.result, polls |-> w.polls, voters |-> w.voters]

\* One vote instruction: the result and the accounts after it.  The writes
\* of the instruction are kept only when it returns Ok.
ProcessVote(P, V, t, p, authority, wallet, candidate_idx) ==
    LET acc == VoteAccounts(P, V, p, authority, wallet)
    IN  IF acc # "Ok" THEN [result |-> acc, polls |-> P, voters |-> V]
        ELSE
          LET h == VoteHandler(P[p], ZeroVoter, p, wallet, t, candidate_idx)
              w == WriteBack(P, V, p, wallet, h)
          IN  IF h.result # "Ok" THEN [result |-> h.result, polls |-> P, voters |-> V]
              ELSE [result |-> "Ok", polls |-> w.polls, voters |-> w.voters]

\* ------------------------------------------------------------ state machine
Init ==
    /\ polls = << >>
    /\ voters = << >>
    /\ now = 0
    /\ last = [op |-> "none", result |-> "none"]
    /\ castBy = [a \in VoterAddrs |-> 0]
    /\ castFor = [p \in PollAddrs |-> [i \in CandidateIdxs |-> 0]]
    /\ given = << >>

InitPoll(authority, title, candidates, start_ts, end_ts) ==
    LET r == ProcessInitPoll(polls, authority, title, candidates, start_ts, end_ts)
    IN  /\ polls' = r.polls
        /\ last' = [op |-> "init_poll", result |-> r.result]
        /\ given' = IF r.result = "Ok" /\ PollPda(authority, title) \notin DOMAIN given
                    THEN [a \in DOMAIN given \cup {PollPda(authority, title)} |->
                            IF a = PollPda(authority, title)
                            THEN [authority |-> authority, title |-> title,
                                  candidates |-> candidates,
                                  start_ts |-> start_ts, end_ts |-> end_ts]
                            ELSE given[a]]
                    ELSE given
        /\ UNCHANGED <<voters, now, castBy, castFor>>

Vote(p, authority, wallet, candidate_idx) ==
    LET r == ProcessVote(polls, voters, now, p, authority, wallet, candidate_idx)
    IN  /\ polls' = r.polls
        /\ voters' = r.voters
        /\ last' = [op |-> "vote", result |-> r.result]
        /\ castBy' = IF r.result = "Ok"
                     THEN [castBy EXCEPT ![VoterPda(p, wallet)] = @ + 1]
                     ELSE castBy
        /\ castFor' = IF r.result = "Ok"
                      THEN [castFor EXCEPT ![p][candidate_idx] = @ + 1]
                      ELSE castFor
        /\ UNCHANGED <<now, given>>

\* The cluster clock advances; it never goes back.
Tick ==
    /\ now < MaxTime
    /\ now' = now + 1
    /\ UNCHANGED <<polls, voters, last, castBy, castFor, given>>

Next ==
    \/ \E a \in Authorities, t \in Titles, c \in CandidateLists,
          se \in Schedules : InitPoll(a, t, c, se[1], se[2])
    \/ \E p \in PollAddrs, a \in Pubkeys, w \in Wallets, i \in CandidateIdxs :
          Vote(p, a, w, i)
    \/ Tick

Spec == Init /\ [][Next]_vars


\* ------------------------------------------------------------ properties
InWindow(poll, t) == poll.start_ts <= t /\ t <= poll.end_ts

Config(poll) ==
    [ authority |-> poll.authority, title |-> poll.title,
      candidates |-> poll.candidates,
      start_ts |-> poll.start_ts, end_ts |-> poll.end_ts ]

RECURSIVE SumSeq(_)
SumSeq(s) == IF s = << >> THEN 0 ELSE Head(s) + SumSeq(Tail(s))

\* Successful vote instructions on poll p, over the wallets W.
RECURSIVE SumCastBy(_, _)
SumCastBy(p, W) ==
    IF W = {} THEN 0
    ELSE LET w == CHOOSE x \in W : TRUE
         IN  castBy[VoterPda(p, w)] + SumCastBy(p, W \ {w})

\* Successful vote instructions on poll p that selected candidate index i.
CastForIdx(p, i) == IF i \in CandidateIdxs THEN castFor[p][i] ELSE 0

VoteResult(p, a, w, i) == ProcessVote(polls, voters, now, p, a, w, i).result

Failed(op, result) == last = [op |-> op, result |-> result]

\* C1 (uniqueness): for every poll p and wallet w at most one vote instruction
\* for (p, w) has succeeded, and once one has, every vote instruction for
\* (p, w), whatever authority and candidate index it names, fails and leaves
\* the polls (so the votes of p) as they are.
C1_Uniqueness ==
    \A p \in PollAddrs, w \in Wallets :
        /\ castBy[VoterPda(p, w)] <= 1
        /\ castBy[VoterPda(p, w)] = 1 =>
             \A a \in Pubkeys, i \in CandidateIdxs :
                 LET r == ProcessVote(polls, voters, now, p, a, w, i)
                 IN  r.result # "Ok" /\ r.polls = polls

\* A wallet has voted in a poll and a later vote instruction of a wallet that
\* has voted was rejected on the creation of its Voter account.
C1_Witness ==
    /\ Failed("vote", "AccountAlreadyInUse")
    /\ \E p \in PollAddrs, w \in Wallets : castBy[VoterPda(p, w)] = 1

\* C2 (tally conservation): for every poll, votes[i] is the number of
\* successful vote instructions on it that selected candidate i, and the sum
\* of votes is the number of successful vote instructions on it; an address
\* that holds no poll has had no successful vote.
C2_TallyConservation ==
    \A p \in PollAddrs :
        IF p \in DOMAIN polls
        THEN /\ \A i \in 1..Len(polls[p].votes) :
                    polls[p].votes[i] = CastForIdx(p, i - 1)
             /\ \A i \in CandidateIdxs :
                    i >= Len(polls[p].votes) => castFor[p][i] = 0
             /\ SumSeq(polls[p].votes) = SumCastBy(p, Wallets)
        ELSE /\ \A i \in CandidateIdxs : castFor[p][i] = 0
             /\ SumCastBy(p, Wallets) = 0

\* Three wallets have voted in one poll, two of them for the same candidate.
C2_Witness ==
    \E p \in DOMAIN polls :
        /\ polls[p].votes[1] = 2
        /\ polls[p].votes[2] = 1
        /\ SumCastBy(p, Wallets) = 3

\* C3: a vote instruction that returns an error, whichever it is, leaves
\* every Poll and every Voter account as it was: no Voter account is created
\* and no tally changes.
C3_FailedVoteNoChange ==
    [][ (last'.op = "vote" /\ last'.result # "Ok")
            => (polls' = polls /\ voters' = voters) ]_vars

\* A vote was rejected for an out-of-range candidate index while a poll with
\* counted votes exists.
C3_Witness ==
    /\ Failed("vote", "BadCandidate")
    /\ \E p \in DOMAIN polls : SumSeq(polls[p].votes) > 0

\* C4: every step that changes the votes of a poll, or creates a Voter account
\* for a poll, happens at a time inside the window of that poll.
C4_CountedOnlyInWindow ==
    [][ /\ \A p \in DOMAIN polls :
              (p \in DOMAIN polls' /\ polls'[p].votes # polls[p].votes)
                  => InWindow(polls[p], now)
        /\ \A p \in PollAddrs, w \in Wallets :
              (VoterPda(p, w) \in DOMAIN voters' /\ VoterPda(p, w) \notin DOMAIN voters)
                  => (p \in DOMAIN polls /\ InWindow(polls[p], now)) ]_vars

\* A vote has just been counted and the clock stands at the last second of the
\* window of its poll, which holds two votes.
C4_Witness ==
    /\ last = [op |-> "vote", result |-> "Ok"]
    /\ \E p \in DOMAIN polls :
          /\ now = polls[p].end_ts
          /\ SumSeq(polls[p].votes) = 2
          /\ \A q \in DOMAIN polls : q # p => SumSeq(polls[q].votes) = 0

\* C5 as stated (window acceptance): every vote step on an existing poll
\* inside the window, with an index in range and a wallet without Voter
\* account for the poll, succeeds.
C5_Original ==
    [][ \A p \in DOMAIN polls, a \in Pubkeys, w \in Wallets, i \in CandidateIdxs :
          ( /\ InWindow(polls[p], now)
            /\ i < Len(polls[p].candidates)
            /\ VoterPda(p, w) \notin DOMAIN voters
            /\ Vote(p, a, w, i) )
              => last'.result = "Ok" ]_vars

\* C5 (amended): in every reachable state such a vote succeeds when, in addition, the authority account
\* passed is the authority stored in the poll and the chosen counter is below
\* its maximum.
C5_WindowAcceptance ==
    \A p \in DOMAIN polls, a \in Pubkeys, w \in Wallets, i \in CandidateIdxs :
        ( /\ InWindow(polls[p], now)
          /\ i < Len(polls[p].candidates)
          /\ VoterPda(p, w) \notin DOMAIN voters
          /\ a = polls[p].authority
          /\ polls[p].votes[i + 1] < MaxTally )
            => VoteResult(p, a, w, i) = "Ok"

\* A vote has succeeded at the first second of the window of its poll.
C5_Witness ==
    /\ last = [op |-> "vote", result |-> "Ok"]
    /\ \E p \in DOMAIN polls :
          /\ now = polls[p].start_ts
          /\ SumSeq(polls[p].votes) > 0

\* C6 as stated: after end_ts every vote step on an existing poll fails with
\* Closed, whatever the candidate index and whether or not the wallet has a
\* Voter account for the poll (here already with the poll's own authority
\* passed, the case that reaches the furthest).
C6_Original ==
    [][ \A p \in DOMAIN polls, w \in Wallets, i \in CandidateIdxs :
          (now > polls[p].end_ts /\ Vote(p, polls[p].authority, w, i))
              => last'.result = "Closed" ]_vars

\* C6 (amended): after end_ts every vote on an existing poll fails, whatever
\* the candidate index: on the creation of the Voter account when the wallet
\* has one for the poll, else on has_one when the authority passed is not the
\* poll's, else with Closed.
C6_ClosedAfterEnd ==
    \A p \in DOMAIN polls, a \in Pubkeys, w \in Wallets, i \in CandidateIdxs :
        now > polls[p].end_ts =>
            VoteResult(p, a, w, i) =
                IF VoterPda(p, w) \in DOMAIN voters THEN "AccountAlreadyInUse"
                ELSE IF a # polls[p].authority THEN "ConstraintHasOne"
                ELSE "Closed"

\* A vote was rejected as Closed on a poll past its end in which some wallet
\* has voted and some has not.
C6_Witness ==
    /\ Failed("vote", "Closed")
    /\ \E p \in DOMAIN polls :
          /\ now > polls[p].end_ts
          /\ \E w \in Wallets : VoterPda(p, w) \in DOMAIN voters
          /\ \E w \in Wallets : VoterPda(p, w) \notin DOMAIN voters

\* C7 as stated: before start_ts every vote step on an existing poll fails
\* with TooEarly, whatever the candidate index.
C7_Original ==
    [][ \A p \in DOMAIN polls, a \in Pubkeys, w \in Wallets, i \in CandidateIdxs :
          (now < polls[p].start_ts /\ Vote(p, a, w, i))
              => last'.result = "TooEarly" ]_vars

\* C7 (amended): before start_ts every vote on an existing poll that passes
\* the poll's stored authority fails with TooEarly, whatever the candidate
\* index, in range or not.
C7_TooEarlyBeforeStart ==
    \A p \in DOMAIN polls, a \in Pubkeys, w \in Wallets, i \in CandidateIdxs :
        (now < polls[p].start_ts /\ a = polls[p].authority)
            => VoteResult(p, a, w, i) = "TooEarly"

\* A vote was rejected as TooEarly while every existing poll has not started.
C7_Witness ==
    /\ Failed("vote", "TooEarly")
    /\ polls # << >>
    /\ \A p \in DOMAIN polls : now < polls[p].start_ts

\* C8 (overflow atomicity): a vote that passes the account validation, inside
\* the window, for a candidate whose counter is at its maximum, fails with
\* Overflow and leaves every account as it was (no Voter account, no tally
\* changed), so that the same wallet voting for another candidate whose
\* counter is below the maximum succeeds.
C8_OverflowAtomic ==
    \A p \in DOMAIN polls, a \in Pubkeys, w \in Wallets, i \in CandidateIdxs :
        ( /\ VoteAccounts(polls, voters, p, a, w) = "Ok"
          /\ InWindow(polls[p], now)
          /\ i < Len(polls[p].candidates)
          /\ polls[p].votes[i + 1] = MaxTally )
            => LET r == ProcessVote(polls, voters, now, p, a, w, i)
               IN  /\ r.result = "Overflow"
                   /\ r.polls = polls
                   /\ r.voters = voters
                   /\ \A j \in CandidateIdxs :
                         (j < Len(polls[p].candidates) /\ polls[p].votes[j + 1] < MaxTally)
                             => ProcessVote(r.polls, r.voters, now, p, a, w, j).result = "Ok"

\* A vote has failed with Overflow: a counter is at its maximum and a wallet
\* without Voter account for that poll remains.
C8_Witness ==
    /\ Failed("vote", "Overflow")
    /\ \E p \in DOMAIN polls, w \in Wallets, i \in 1..2 :
          /\ polls[p].votes[i] = MaxTally
          /\ VoterPda(p, w) \notin DOMAIN voters

\* C9 (configuration immutability): the authority, title, candidates, start_ts
\* and end_ts of every poll are the arguments of the init_poll that created it.
C9_ConfigImmutable ==
    /\ DOMAIN given = DOMAIN polls
    /\ \A p \in DOMAIN polls : Config(polls[p]) = given[p]

\* Two polls exist, votes have been counted in one of them, and an init_poll
\* for an address in use has just failed.
C9_Witness ==
    /\ Failed("init_poll", "AccountAlreadyInUse")
    /\ Cardinality(DOMAIN polls) = 2
    /\ \E p \in DOMAIN polls : SumSeq(polls[p].votes) > 0

\* Candidate names that pass the name checks, and lists whose only bad names
\* have n bytes.
NamesOk(c) == \A i \in 1..Len(c) : Len(c[i]) >= 1 /\ Len(c[i]) <= 32
NamesOkBut(c, n) ==
    /\ \E i \in 1..Len(c) : Len(c[i]) = n
    /\ \A i \in 1..Len(c) : Len(c[i]) = n \/ (Len(c[i]) >= 1 /\ Len(c[i]) <= 32)
\* The error the spec gives an init_poll with exactly one defect.
ExpectedRejection(t, c, s, e) ==
    IF Len(c) = 1 /\ Len(t) <= 64 /\ s < e /\ NamesOk(c) THEN "NotEnoughCandidates"
    ELSE IF Len(c) = 9 /\ Len(t) <= 64 /\ s < e /\ NamesOk(c) THEN "TooManyCandidates"
    ELSE IF Len(c) \in 2..8 /\ Len(t) = 65 /\ s < e /\ NamesOk(c) THEN "TitleTooLong"
    ELSE IF Len(c) \in 2..8 /\ Len(t) <= 64 /\ s = e /\ NamesOk(c) THEN "BadSchedule"
    ELSE IF Len(c) \in 2..8 /\ Len(t) <= 64 /\ s < e /\ NamesOkBut(c, 33)
         THEN "CandidateNameTooLong"
    ELSE IF Len(c) \in 2..8 /\ Len(t) <= 64 /\ s < e /\ NamesOkBut(c, 0)
         THEN "EmptyCandidateName"
    ELSE "none"

\* C10 as stated (config rejection): every init_poll step whose only defect is
\* one candidate, nine candidates, a title of 65 bytes, start_ts = end_ts, a
\* name of 33 bytes or an empty name returns the error of that defect and
\* creates no Poll account.
C10_ConfigRejection ==
    [][ \A a \in Authorities, t \in Titles, c \in CandidateLists, se \in Schedules :
          ( /\ ExpectedRejection(t, c, se[1], se[2]) # "none"
            /\ InitPoll(a, t, c, se[1], se[2]) )
              => ( /\ last'.result = ExpectedRejection(t, c, se[1], se[2])
                   /\ polls' = polls ) ]_vars

\* C11: an init_poll for an (authority, title) whose Poll account exists
\* fails, whatever its other arguments, and leaves every poll as it is
\* (configuration and tallies); every poll sits at the address of its own
\* authority and title, so two polls never share both.
C11_NoPollReuse ==
    /\ \A a \in Authorities, t \in Titles, c \in CandidateLists, se \in Schedules :
          (PollSeedsOk(t) /\ PollPda(a, t) \in DOMAIN polls) =>
              LET r == ProcessInitPoll(polls, a, t, c, se[1], se[2])
              IN  r.result # "Ok" /\ r.polls = polls
    /\ \A p \in DOMAIN polls : p = PollPda(polls[p].authority, polls[p].title)
    /\ \A p, q \in DOMAIN polls :
          (polls[p].authority = polls[q].authority /\ polls[p].title = polls[q].title)
              => p = q

\* An init_poll for an address in use has just failed while the poll of an
\* authority holds counted votes and the other authority has no poll.
C11_Witness ==
    /\ Failed("init_poll", "AccountAlreadyInUse")
    /\ Cardinality(DOMAIN polls) = 1
    /\ \E p \in DOMAIN polls : SumSeq(polls[p].votes) = 2

\* The two vote instructions of one wallet w on poll p, run one after the
\* other from the current state: the first at now, the second at t2.
VotePair(p, w, a1, i1, a2, i2, t2) ==
    LET r1 == ProcessVote(polls, voters, now, p, a1, w, i1)
        r2 == ProcessVote(r1.polls, r1.voters, t2, p, a2, w, i2)
    IN  [first |-> r1.result, second |-> r2.result, polls |-> r2.polls]

\* Both instructions are inside the window with indexes in range, and the
\* wallet has no Voter account for the poll when they are submitted.
PairSubmitted(p, w, i1, i2, t2) ==
    /\ InWindow(polls[p], now) /\ InWindow(polls[p], t2)
    /\ i1 < Len(polls[p].candidates) /\ i2 < Len(polls[p].candidates)
    /\ VoterPda(p, w) \notin DOMAIN voters

\* C12 as stated: of two such vote instructions of one wallet on one poll, in
\* either order, exactly one succeeds, the other fails on the creation of the
\* Voter account, and the tallies of the poll grow by 1 in total.
C12_Original ==
    \A p \in DOMAIN polls, w \in Wallets, a1 \in Pubkeys, a2 \in Pubkeys,
       i1 \in CandidateIdxs, i2 \in CandidateIdxs, t2 \in now..MaxTime :
        PairSubmitted(p, w, i1, i2, t2) =>
            LET r == VotePair(p, w, a1, i1, a2, i2, t2)
            IN  /\ r.first = "Ok"
                /\ r.second = "AccountAlreadyInUse"
                /\ SumSeq(r.polls[p].votes) = SumSeq(polls[p].votes) + 1

\* C12 (amended): the same, when both instructions pass the poll's stored
\* authority and the counters they choose are below the maximum.
C12_OneOfTwoSucceeds ==
    \A p \in DOMAIN polls, w \in Wallets, a1 \in Pubkeys, a2 \in Pubkeys,
       i1 \in CandidateIdxs, i2 \in CandidateIdxs, t2 \in now..MaxTime :
        ( /\ PairSubmitted(p, w, i1, i2, t2)
          /\ a1 = polls[p].authority /\ a2 = polls[p].authority
          /\ polls[p].votes[i1 + 1] < MaxTally
          /\ polls[p].votes[i2 + 1] < MaxTally ) =>
            LET r == VotePair(p, w, a1, i1, a2, i2, t2)
            IN  /\ r.first = "Ok"
                /\ r.second = "AccountAlreadyInUse"
                /\ SumSeq(r.polls[p].votes) = SumSeq(polls[p].votes) + 1

\* Inside the window of a poll one vote has been counted and a second vote of
\* the wallet that cast it has just been rejected on its Voter account.
C12_Witness ==
    /\ Failed("vote", "AccountAlreadyInUse")
    /\ \E p \in DOMAIN polls, w \in Wallets :
          /\ InWindow(polls[p], now)
          /\ castBy[VoterPda(p, w)] = 1
          /\ SumSeq(polls[p].votes) = 1

\* 1 when a vote with this result selected the counter at position j, else 0.
Increment(result, candidate_idx, j) ==
    IF result = "Ok" /\ candidate_idx + 1 = j THEN 1 ELSE 0

\* C13 (no lost updates): two vote instructions of different wallets on one
\* poll, passing the same authority account (the poll's or another), run in
\* either order (the second at any later time), leave each
\* counter of the poll at its value before plus the number of those of the two
\* that succeeded and selected it; two successes for one index raise it by 2.
C13_NoLostUpdates ==
    \A p \in DOMAIN polls, a \in Authorities, w1 \in Wallets, i1 \in CandidateIdxs :
      LET r1 == ProcessVote(polls, voters, now, p, a, w1, i1)
      IN  \A w2 \in Wallets \ {w1}, i2 \in CandidateIdxs, t2 \in now..MaxTime :
            LET r2 == ProcessVote(r1.polls, r1.voters, t2, p, a, w2, i2)
            IN  /\ Len(r2.polls[p].votes) = Len(polls[p].votes)
                /\ \A j \in 1..Len(polls[p].votes) :
                      r2.polls[p].votes[j] =
                          polls[p].votes[j] + Increment(r1.result, i1, j)
                                            + Increment(r2.result, i2, j)

\* Two wallets have voted for the same candidate of a poll and nobody for the
\* others: its counter is 2.
C13_Witness ==
    /\ last = [op |-> "vote", result |-> "Ok"]
    /\ \E p \in DOMAIN polls :
          /\ polls[p].votes[1] = 2
          /\ SumSeq(polls[p].votes) = 2
          /\ Cardinality({w \in Wallets : castBy[VoterPda(p, w)] = 1}) = 2

\* C14: a vote instruction that passes an authority other than the one stored
\* in the poll fails and leaves every Poll and Voter account as it was, at any
\* time and for any index; when the wallet has no Voter account for the poll
\* the error is ConstraintHasOne, also inside the window with a valid index.
C14_AuthorityMismatchFails ==
    \A p \in DOMAIN polls, a \in Pubkeys, w \in Wallets, i \in CandidateIdxs :
        a # polls[p].authority =>
            LET r == ProcessVote(polls, voters, now, p, a, w, i)
            IN  /\ r.result # "Ok"
                /\ r.polls = polls
                /\ r.voters = voters
                /\ VoterPda(p, w) \notin DOMAIN voters => r.result = "ConstraintHasOne"

\* A vote has just failed on has_one while the only poll is inside its window
\* and no wallet has voted yet.
C14_Witness ==
    /\ Failed("vote", "ConstraintHasOne")
    /\ voters = << >>
    /\ Cardinality(DOMAIN polls) = 1
    /\ \A p \in DOMAIN polls : InWindow(polls[p], now)

\* C15: every poll has as many counters as candidates, between 2 and 8 of
\* them, and starts before it ends.
C15_PollShape ==
    \A p \in DOMAIN polls :
        /\ Len(polls[p].votes) = Len(polls[p].candidates)
        /\ Len(polls[p].candidates) >= 2
        /\ Len(polls[p].candidates) <= 8
        /\ polls[p].start_ts < polls[p].end_ts

\* A poll of 2 candidates and a poll of 8 candidates exist and votes have been
\* counted in both.
C15_Witness ==
    \E p \in DOMAIN polls, q \in DOMAIN polls :
        /\ Len(polls[p].candidates) = 2
        /\ Len(polls[q].candidates) = 8
        /\ SumSeq(polls[p].votes) > 0
        /\ SumSeq(polls[q].votes) > 0

\* The phase of a poll at time t: 0 NotStarted, 1 Open, 2 Closed.
Phase(poll, t) ==
    IF t < poll.start_ts THEN 0 ELSE IF t <= poll.end_ts THEN 1 ELSE 2

\* The Voter accounts in V whose address is derived from poll p.
VotersAt(V, p) == {w \in Wallets : VoterPda(p, w) \in DOMAIN V}

\* C16 (phase progression): in every step every poll stays, its phase does not
\* go back, and when it is Closed before the step (now > end_ts) the step
\* neither changes its votes nor creates a Voter account for it: no vote on it
\* succeeds any more.
C16_PhaseProgression ==
    [][ \A p \in DOMAIN polls :
            /\ p \in DOMAIN polls'
            /\ Phase(polls'[p], now') >= Phase(polls[p], now)
            /\ Phase(polls[p], now) = 2 =>
                  /\ polls'[p].votes = polls[p].votes
                  /\ VotersAt(voters', p) = VotersAt(voters, p) ]_vars

\* A poll that closed with two counted votes has just rejected the vote of a
\* wallet: the third wallet never voted on it.
C16_Witness ==
    /\ Failed("vote", "Closed")
    /\ \E p \in DOMAIN polls :
          /\ Phase(polls[p], now) = 2
          /\ SumSeq(polls[p].votes) = 2
          /\ Cardinality(VotersAt(voters, p)) = 2

\* C17 (Voter account permanence): every step keeps every Voter account, with
\* the same contents, and every Poll account; after the step the Voter
\* accounts sit only at addresses derived from a poll and a wallet, and each
\* holds that poll, that wallet and has_voted = true.
C17_VoterPermanence ==
    [][ /\ \A v \in DOMAIN voters : v \in DOMAIN voters' /\ voters'[v] = voters[v]
        /\ DOMAIN polls \subseteq DOMAIN polls'
        /\ DOMAIN voters' \subseteq VoterAddrs
        /\ \A p \in PollAddrs, w \in Wallets :
              VoterPda(p, w) \in DOMAIN voters' =>
                  /\ voters'[VoterPda(p, w)].has_voted
                  /\ voters'[VoterPda(p, w)].wallet = w
                  /\ voters'[VoterPda(p, w)].poll = p ]_vars

\* Every wallet holds a Voter account for a poll that has closed, another poll
\* exists, and an init_poll on an address in use has just been rejected.
C17_Witness ==
    /\ Failed("init_poll", "AccountAlreadyInUse")
    /\ Cardinality(DOMAIN polls) = 2
    /\ \E p \in DOMAIN polls :
          /\ now > polls[p].end_ts
          /\ \A w \in Wallets : VoterPda(p, w) \in DOMAIN voters

\* Arguments of init_poll that pass every check the handler makes on the
\* candidates and the schedule.
ValidPollArgs(c, start_ts, end_ts) ==
    Len(c) >= 2 /\ Len(c) <= 8 /\ NamesOk(c) /\ start_ts < end_ts

\* C18: every init_poll step with 2 to 8 candidates of 1 to 32 bytes each,
\* start_ts < end_ts, a title of at most 64 bytes (33 and 64 bytes among them)
\* and no Poll account for its authority and title returns Ok and creates the
\* Poll account of that authority and title.
C18_TitlesUpTo64Accepted ==
    [][ \A a \in Authorities, t \in Titles, c \in CandidateLists, se \in Schedules :
          ( /\ ValidPollArgs(c, se[1], se[2])
            /\ Len(t) <= 64
            /\ PollPda(a, t) \notin DOMAIN polls
            /\ InitPoll(a, t, c, se[1], se[2]) )
              => ( /\ last'.result = "Ok"
                   /\ PollPda(a, t) \in DOMAIN polls'
                   /\ polls'[PollPda(a, t)].title = t ) ]_vars

\* The part of C18 the program does satisfy: the same with a title of at most
\* MAX_SEED_LEN bytes, in every reachable state.
TitlesUpToSeedLenAccepted ==
    \A a \in Authorities, t \in Titles, c \in CandidateLists, se \in Schedules :
        ( /\ ValidPollArgs(c, se[1], se[2])
          /\ Len(t) <= MAX_SEED_LEN
          /\ PollPda(a, t) \notin DOMAIN polls )
            => LET r == ProcessInitPoll(polls, a, t, c, se[1], se[2])
               IN  /\ r.result = "Ok"
                   /\ PollPda(a, t) \in DOMAIN r.polls
                   /\ r.polls[PollPda(a, t)].title = t

\* The Voter accounts whose poll field is p.
BallotsOf(p) == {v \in DOMAIN voters : voters[v].poll = p}

\* C19: for every poll the number of Voter accounts whose poll field is that
\* poll equals the sum of its votes, and no Voter account names an address
\* that holds no poll.
C19_BallotsMatchVotes ==
    /\ \A p \in DOMAIN polls : Cardinality(BallotsOf(p)) = SumSeq(polls[p].votes)
    /\ \A v \in DOMAIN voters : voters[v].poll \in DOMAIN polls

\* Two wallets hold the Voter accounts of a poll whose first counter is at its
\* maximum, and the vote of the third wallet for that candidate has just
\* failed with Overflow, leaving no Voter account.
C19_Witness ==
    /\ Failed("vote", "Overflow")
    /\ \E p \in DOMAIN polls :
          /\ polls[p].votes[1] = MaxTally
          /\ Cardinality(BallotsOf(p)) = 2
          /\ \A q \in DOMAIN polls : q # p => polls[q].votes[1] < MaxTally

\* C20 (poll independence): a vote that succeeds on poll p for wallet w and
\* index i adds 1 to votes[i] of p and creates the Voter account of (p, w);
\* the rest of p, every other poll and every other Voter account stay as they
\* were, and every vote of w on another poll q has the result it would have
\* had without the vote on p.
C20_PollsIndependent ==
    \A p \in DOMAIN polls, a \in Pubkeys, w \in Wallets, i \in CandidateIdxs :
        LET r == ProcessVote(polls, voters, now, p, a, w, i)
        IN  r.result = "Ok" =>
              /\ DOMAIN r.polls = DOMAIN polls
              /\ \A q \in DOMAIN polls \ {p} : r.polls[q] = polls[q]
              /\ Config(r.polls[p]) = Config(polls[p])
              /\ Len(r.polls[p].votes) = Len(polls[p].votes)
              /\ \A j \in 1..Len(polls[p].votes) :
                    r.polls[p].votes[j] = polls[p].votes[j] + Increment("Ok", i, j)
              /\ VoterPda(p, w) \notin DOMAIN voters
              /\ DOMAIN r.voters = DOMAIN voters \cup {VoterPda(p, w)}
              /\ \A v \in DOMAIN voters : r.voters[v] = voters[v]
              /\ r.voters[VoterPda(p, w)] = [poll |-> p, wallet |-> w, has_voted |-> TRUE]
              /\ \A q \in DOMAIN polls \ {p}, a2 \in Pubkeys, i2 \in CandidateIdxs :
                    ProcessVote(r.polls, r.voters, now, q, a2, w, i2).result
                        = VoteResult(q, a2, w, i2)

\* A wallet holds the Voter accounts of two polls, the second just created.
C20_Witness ==
    /\ last = [op |-> "vote", result |-> "Ok"]
    /\ \E w \in Wallets, p \in DOMAIN polls, q \in DOMAIN polls :
          /\ p # q
          /\ VoterPda(p, w) \in DOMAIN voters
          /\ VoterPda(q, w) \in DOMAIN voters
          /\ SumSeq(polls[p].votes) = 1
          /\ SumSeq(polls[q].votes) = 1

====
